---- MODULE Spec2Model ----
(***************************************************************************)
(* Model of the report pipeline of src/app.py: build_excel_bytes (the row  *)
(* normaliser, the per-route aggregation, the sort, the carrier summary,   *)
(* the exception and time-gate selections, the sheets with their row       *)
(* fills) and the upload handler that calls it.                            *)
(*                                                                         *)
(* Conventions.                                                            *)
(*  - Text cells are strings; a missing cell (pandas NaN) is the string    *)
(*    NaN ("NaN" is itself read as a missing cell by read_excel).          *)
(*  - Times are seconds since midnight of the run's date; every timestamp  *)
(*    of the input is a time of that date, written "HH:MM:SS".             *)
(*  - An optional number (Python None / NaN) is a sequence: None is << >>  *)
(*    and a present value v is <<v>>.                                      *)
(*  - MinutesSinceLast is kept in tenths of a minute (round(x, 1)),        *)
(*    HoursSinceFirstDelivery and DeliveriesPerHour in hundredths          *)
(*    (round(x, 2)); a rate is the pair [n, d] standing for n / d.         *)
(***************************************************************************)
EXTENDS Integers, Sequences, FiniteSets, TLC

VARIABLES
    raw_df,      \* the uploaded table: a sequence of rows of text cells
    wallclock,   \* the wall clock (ET), seconds since midnight
    ticks,       \* how often the wall clock advanced during the run
    pc,          \* position of the upload handler / build_excel_bytes
    df,          \* the normalised copy of raw_df (line 82-94)
    now_et,      \* the instant captured at line 97
    route_df,    \* the per-route table
    summary_df,  \* the carrier summary
    exc_df,      \* the Exceptions subset
    after_3pm,   \* line 185
    after_6pm,   \* line 186
    check_3pm,   \* line 187
    check_6pm,   \* line 188
    wb,          \* the rendered workbook
    ts           \* the file-name timestamp of the upload handler (line 309)

vars == <<raw_df, wallclock, ticks, pc, df, now_et, route_df, summary_df,
          exc_df, after_3pm, after_6pm, check_3pm, check_6pm, wb, ts>>

(***************************************************************************)
(* Bounds of the model.                                                    *)
(***************************************************************************)
MaxRows == 2
MaxTicks == 1

(***************************************************************************)
(* Text.                                                                   *)
(***************************************************************************)
NaN == "NaN"
None == << >>
Some(v) == <<v>>
IsNone(o) == o = << >>
Val(o) == o[1]

LowerLetters == "abcdefghijklmnopqrstuvwxyz"
UpperLetters == "ABCDEFGHIJKLMNOPQRSTUVWXYZ"
\* the characters of the model's texts in code-point order
CodePoints == " 0123456789:ABCDEFGHIJKLMNOPQRSTUVWXYZ_abcdefghijklmnopqrstuvwxyz"
DigitChars == "0123456789"

CharAt(s, i) == SubSeq(s, i, i)

IndexIn(alphabet, c) ==
    IF \E i \in 1..Len(alphabet) : CharAt(alphabet, i) = c
    THEN CHOOSE i \in 1..Len(alphabet) : CharAt(alphabet, i) = c
    ELSE 0

UpperChar(c) ==
    IF IndexIn(LowerLetters, c) > 0
    THEN CharAt(UpperLetters, IndexIn(LowerLetters, c))
    ELSE c

RECURSIVE StrUpper(_)
StrUpper(s) ==
    IF Len(s) = 0 THEN ""
    ELSE UpperChar(CharAt(s, 1)) \o StrUpper(SubSeq(s, 2, Len(s)))

StrContains(s, sub) ==
    \E i \in 1..(Len(s) - Len(sub) + 1) : SubSeq(s, i, i + Len(sub) - 1) = sub

\* str < str : by code point, a proper prefix first
RECURSIVE StrLess(_, _)
StrLess(a, b) ==
    IF Len(b) = 0 THEN FALSE
    ELSE IF Len(a) = 0 THEN TRUE
    ELSE IF CharAt(a, 1) = CharAt(b, 1)
         THEN StrLess(SubSeq(a, 2, Len(a)), SubSeq(b, 2, Len(b)))
         ELSE IndexIn(CodePoints, CharAt(a, 1)) < IndexIn(CodePoints, CharAt(b, 1))

\* astype(str): a missing cell becomes the text "nan"
AsStr(cell) == IF cell = NaN THEN "nan" ELSE cell

(***************************************************************************)
(* Timestamps.                                                             *)
(***************************************************************************)
IsDigit(c) == IndexIn(DigitChars, c) > 0
Digit(c) == IndexIn(DigitChars, c) - 1
TwoDigits(s, i) == 10 * Digit(CharAt(s, i)) + Digit(CharAt(s, i + 1))

\* pd.to_datetime(..., errors="coerce") on one cell: the time, or NaT (None)
to_datetime(cell) ==
    IF /\ cell # NaN
       /\ Len(cell) = 8
       /\ CharAt(cell, 3) = ":" /\ CharAt(cell, 6) = ":"
       /\ \A i \in {1, 2, 4, 5, 7, 8} : IsDigit(CharAt(cell, i))
       /\ TwoDigits(cell, 1) < 24
       /\ TwoDigits(cell, 4) < 60
       /\ TwoDigits(cell, 7) < 60
    THEN Some(3600 * TwoDigits(cell, 1) + 60 * TwoDigits(cell, 4) + TwoDigits(cell, 7))
    ELSE None

DigitStr(n) == CharAt(DigitChars, n + 1)
Pad2(n) == DigitStr(n \div 10) \o DigitStr(n % 10)

\* now_et.strftime(...): the time-of-day part, "%H:%M:%S"
strftime(t) == Pad2(t \div 3600) \o ":" \o Pad2((t % 3600) \div 60) \o ":" \o Pad2(t % 60)

\* now_et.hour
Hour(t) == t \div 3600

(***************************************************************************)
(* round(a / b, ndigits) of Python floats, as an integer count of          *)
(* 1/scale (scale = 10^ndigits), for integers a and b > 0.  a / b is the   *)
(* double nearest to the quotient and round() rounds that double's exact   *)
(* value half-to-even; so a decimal half-way case goes the way the double  *)
(* division moved the quotient.                                            *)
(***************************************************************************)
RECURSIVE Gcd(_, _)
Gcd(a, b) == IF b = 0 THEN a ELSE Gcd(b, a % b)

RECURSIVE IsPow2(_)
IsPow2(n) == IF n = 1 THEN TRUE ELSE IF n % 2 = 1 THEN FALSE ELSE IsPow2(n \div 2)

RECURSIVE Pow2Mod(_, _)
Pow2Mod(k, b) == IF k = 0 THEN 1 % b ELSE (2 * Pow2Mod(k - 1, b)) % b

\* the number of halvings (e >= 0) or doublings (e < 0) that bring a / b into [1, 2)
RECURSIVE FloorLog2(_, _)
FloorLog2(a, b) ==
    IF a >= 2 * b THEN 1 + FloorLog2(a, 2 * b)
    ELSE IF a < b THEN FloorLog2(2 * a, b) - 1
    ELSE 0

\* does the double division a / b (not exact) land above the quotient?
DivisionRoundsUp(a, b) ==
    2 * (((a % b) * Pow2Mod(52 - FloorLog2(a, b), b)) % b) > b

RoundDivPos(a, b, scale) ==
    LET q == (a * scale) \div b
        f == (a * scale) % b
    IN  IF 2 * f < b THEN q
        ELSE IF 2 * f > b THEN q + 1
        ELSE IF IsPow2(b \div Gcd(a, b))
             THEN (IF q % 2 = 0 THEN q ELSE q + 1)
             ELSE (IF DivisionRoundsUp(a, b) THEN q + 1 ELSE q)

RoundDiv(a, b, scale) ==
    IF a = 0 THEN 0
    ELSE IF a < 0 THEN 0 - RoundDivPos(0 - a, b, scale)
    ELSE RoundDivPos(a, b, scale)

(***************************************************************************)
(* Program constants.                                                      *)
(***************************************************************************)
SecondsPerMinute == 60
SecondsPerHour == 3600
YellowMinutes == 30         \* elif minutes_since_last > 30
RedMinutes == 60            \* if minutes_since_last > 60
YellowFillMinutes == 30     \* apply_route_colors: elif m > 30
RedFillMinutes == 60        \* apply_route_colors: if m > 60
SortFill == 1000000000      \* fillna(10**9)
ExcMinutes == 120
ExcMinutesFill == 0         \* fillna(0)
ExcPerHour == 10
ExcPerHourFill == 999       \* fillna(999)
Gate3pmHour == 15
Gate6pmHour == 18
Rate3pm == [n |-> 1, d |-> 2]    \* 0.5
Rate6pm == [n |-> 4, d |-> 5]    \* 0.8
Tenths == 10                \* round(x, 1)
Hundredths == 100           \* round(x, 2)

\* a / b < c / e for rates with positive denominators (the doubles compare as
\* the quotients do: the counts are far below 2^53)
RateLess(r, c) == r.n * c.d < c.n * r.d

(***************************************************************************)
(* Row normaliser: lines 82-94.                                            *)
(***************************************************************************)
NormalizeRow(row) ==
    [route |-> row.route,
     flee |-> row.flee,
     time |-> to_datetime(row.time),
     StatusU |-> StrUpper(AsStr(row.status))]

Normalize(raw) == [i \in 1..Len(raw) |-> NormalizeRow(raw[i])]

(***************************************************************************)
(* Route aggregator: lines 100-153.                                        *)
(***************************************************************************)
IsDeliveredContains(row) == StrContains(row.StatusU, "DELIVERED")
IsDelivered(row) == row.StatusU = "DELIVERED"
IsFailed(row) == StrContains(row.StatusU, "FAIL")

\* int(mask.sum())
CountOf(selected) == Len(selected)

\* g[flee_col].dropna().iloc[0] if any, else None (kept as NaN)
RECURSIVE FirstFlee(_)
FirstFlee(g) ==
    IF g = << >> THEN NaN
    ELSE IF Head(g).flee # NaN THEN Head(g).flee
    ELSE FirstFlee(Tail(g))

HasTimeOnly(row) == ~IsNone(row.time)
HasDeliveredTime(row) == IsDelivered(row) /\ ~IsNone(row.time)

\* g[(g["StatusU"] == "DELIVERED") & g[time_col].notna()]
DeliveredRows(g) == SelectSeq(g, HasDeliveredTime)

SetMin(S) == CHOOSE x \in S : \A y \in S : x <= y
SetMax(S) == CHOOSE x \in S : \A y \in S : x >= y
TimesOf(rows) == {Val(rows[i].time) : i \in 1..Len(rows)}

\* delivered_cnt / hours_since_first, rounded to 2 decimals.  The quotient is
\* cnt * 3600 / secs; it is rounded to the nearest hundredth.  (A quotient
\* exactly half-way between two hundredths would go the way the two double
\* divisions moved it; PerHourNeverHalfWay states that no run of this model
\* meets one.)
PerHourFloor(cnt, secs) == (cnt * SecondsPerHour * Hundredths) \div secs

PerHourRounded(cnt, secs) ==
    LET q == (cnt * SecondsPerHour * Hundredths) \div secs
        f == (cnt * SecondsPerHour * Hundredths) % secs
    IN  IF 2 * f < secs THEN q
        ELSE IF 2 * f > secs THEN q + 1
        ELSE (IF q % 2 = 0 THEN q ELSE q + 1)

PerHourHalfWay(cnt, secs) ==
    secs > 0 /\ 2 * ((cnt * SecondsPerHour * Hundredths) % secs) = secs

\* lines 128-133, on the exact minutes (secs / 60)
Bucket(secs) ==
    IF secs > SecondsPerMinute * RedMinutes THEN "RED"
    ELSE IF secs > SecondsPerMinute * YellowMinutes THEN "YELLOW"
    ELSE "OK"

\* one pass of the loop body of line 101 for the group g of route `route`
RouteRow(route, g, now) ==
    LET total == Len(g)
        delivered_cnt == CountOf(SelectSeq(g, IsDelivered))
        failed_cnt == CountOf(SelectSeq(g, IsFailed))
        delivered_rows == DeliveredRows(g)
        base == [Route |-> route,
                 FleeName |-> FirstFlee(g),
                 Total |-> total,
                 Delivered |-> delivered_cnt,
                 Failed |-> failed_cnt,
                 Remaining |-> total - delivered_cnt - failed_cnt,
                 CompletionRate |-> IF total # 0 THEN [n |-> delivered_cnt, d |-> total]
                                    ELSE [n |-> 0, d |-> 1]]
    IN  IF delivered_rows = << >>
        THEN base @@ [FirstDeliveryTime |-> None,
                      HoursSinceFirstDelivery |-> None,
                      DeliveriesPerHour |-> None,
                      LatestDeliveredTime |-> None,
                      MinutesSinceLast |-> None,
                      StatusFlag |-> "NO_DELIVERED",
                      AlertBucket |-> "NO_DELIVERED"]
        ELSE LET first_del == SetMin(TimesOf(delivered_rows))
                 last_del == SetMax(TimesOf(delivered_rows))
             IN  base @@ [FirstDeliveryTime |-> Some(first_del),
                          HoursSinceFirstDelivery |->
                              Some(RoundDiv(now - first_del, SecondsPerHour, Hundredths)),
                          DeliveriesPerHour |->
                              IF now - first_del > 0
                              THEN Some(PerHourRounded(delivered_cnt, now - first_del))
                              ELSE None,
                          LatestDeliveredTime |-> Some(last_del),
                          MinutesSinceLast |->
                              Some(RoundDiv(now - last_del, SecondsPerMinute, Tenths)),
                          StatusFlag |-> "HAS_DELIVERED",
                          AlertBucket |-> Bucket(now - last_del)]

\* df.groupby(route_col, dropna=True): the groups in ascending key order
RouteKeys(d) == {d[i].route : i \in 1..Len(d)} \ {NaN}

RECURSIVE SortedKeys(_)
SortedKeys(S) ==
    IF S = {} THEN << >>
    ELSE LET m == CHOOSE x \in S : \A y \in S \ {x} : StrLess(x, y)
         IN  <<m>> \o SortedKeys(S \ {m})

GroupOf(d, route) == SelectSeq(d, LAMBDA row : row.route = route)

Aggregated(d, now) ==
    LET keys == SortedKeys(RouteKeys(d))
    IN  [i \in 1..Len(keys) |-> RouteRow(keys[i], GroupOf(d, keys[i]), now)]

(***************************************************************************)
(* Report composer: lines 155-188.                                         *)
(***************************************************************************)
\* the _sort column, fillna(10**9), as whole minutes and the tenth above them
SortWhole(m) == IF IsNone(m) THEN SortFill ELSE Val(m) \div Tenths
SortTenth(m) == IF IsNone(m) THEN 0 ELSE Val(m) % Tenths

SortGreater(a, b) ==
    \/ SortWhole(a) > SortWhole(b)
    \/ SortWhole(a) = SortWhole(b) /\ SortTenth(a) > SortTenth(b)

\* sort_values(["StatusFlag", "_sort"], ascending=[True, False]): a goes before b
Precedes(a, b) ==
    \/ StrLess(a.StatusFlag, b.StatusFlag)
    \/ a.StatusFlag = b.StatusFlag /\ SortGreater(a.MinutesSinceLast, b.MinutesSinceLast)

\* x goes in front of the first row it precedes: rows of equal keys keep their order
RECURSIVE InsertSorted(_, _)
InsertSorted(sorted, x) ==
    IF sorted = << >> THEN <<x>>
    ELSE IF Precedes(x, Head(sorted)) THEN <<x>> \o sorted
    ELSE <<Head(sorted)>> \o InsertSorted(Tail(sorted), x)

RECURSIVE SortRoutes(_)
SortRoutes(rows) ==
    IF rows = << >> THEN << >>
    ELSE InsertSorted(SortRoutes(SubSeq(rows, 1, Len(rows) - 1)), rows[Len(rows)])

FleeDropped(row) == row.FleeName

\* sum_df["FleeName"].fillna("UNKNOWN")
FleeFilled(row) == IF row.FleeName = NaN THEN "UNKNOWN" ELSE row.FleeName

RECURSIVE SumOf(_, _)
SumOf(rows, field) ==
    IF rows = << >> THEN 0 ELSE Head(rows)[field] + SumOf(Tail(rows), field)

\* groupby("FleeName") drops the rows whose key is missing
Members(rows, flee) == SelectSeq(rows, LAMBDA r : FleeFilled(r) = flee /\ FleeFilled(r) # NaN)

SummaryRow(rows, flee) ==
    LET m == Members(rows, flee)
        totalPkgs == SumOf(m, "Total")
        delivered == SumOf(m, "Delivered")
    IN  [FleeName |-> flee,
         Routes |-> Cardinality({m[i].Route : i \in 1..Len(m)}),
         TotalPkgs |-> totalPkgs,
         Delivered |-> delivered,
         Failed |-> SumOf(m, "Failed"),
         Remaining |-> SumOf(m, "Remaining"),
         NoDeliveredRoutes |-> CountOf(SelectSeq(m, LAMBDA r : r.StatusFlag = "NO_DELIVERED")),
         RedRoutes |-> CountOf(SelectSeq(m, LAMBDA r : r.AlertBucket = "RED")),
         YellowRoutes |-> CountOf(SelectSeq(m, LAMBDA r : r.AlertBucket = "YELLOW")),
         \* (Delivered / TotalPkgs).fillna(0.0)
         CompletionRate |-> IF totalPkgs = 0 THEN [n |-> 0, d |-> 1]
                            ELSE [n |-> delivered, d |-> totalPkgs]]

Summary(rows) ==
    LET keys == SortedKeys({FleeFilled(rows[i]) : i \in 1..Len(rows)} \ {NaN})
    IN  [i \in 1..Len(keys) |-> SummaryRow(rows, keys[i])]

\* lines 178-182
MinutesOr(row, fill) ==
    IF IsNone(row.MinutesSinceLast) THEN fill * Tenths ELSE Val(row.MinutesSinceLast)
PerHourOr(row, fill) ==
    IF IsNone(row.DeliveriesPerHour) THEN fill * Hundredths ELSE Val(row.DeliveriesPerHour)

\* (the selection without its Remaining tests)
IsExceptionNoRemainingTest(row) ==
    \/ row.StatusFlag = "NO_DELIVERED"
    \/ MinutesOr(row, ExcMinutesFill) > ExcMinutes * Tenths
    \/ PerHourOr(row, ExcPerHourFill) < ExcPerHour * Hundredths

IsException(row) ==
    \/ row.StatusFlag = "NO_DELIVERED"
    \/ MinutesOr(row, ExcMinutesFill) > ExcMinutes * Tenths /\ row.Remaining > 0
    \/ PerHourOr(row, ExcPerHourFill) < ExcPerHour * Hundredths /\ row.Remaining > 0

AfterHourStrict(now, gate) == Hour(now) > gate

\* lines 185-186
AfterHour(now, gate) == Hour(now) >= gate

TimeCheck(rows, after, rate) ==
    IF after THEN SelectSeq(rows, LAMBDA r : RateLess(r.CompletionRate, rate))
    ELSE << >>

(***************************************************************************)
(* Spreadsheet renderer: lines 190-279, apply_route_colors: lines 40-69.   *)
(***************************************************************************)
\* the fill apply_route_colors gives the row, from its StatusFlag and
\* MinutesSinceLast cells
RowFill(row) ==
    IF row.StatusFlag = "NO_DELIVERED" THEN "purple"
    ELSE IF ~IsNone(row.MinutesSinceLast)
         THEN (IF Val(row.MinutesSinceLast) > RedFillMinutes * Tenths THEN "red"
               ELSE IF Val(row.MinutesSinceLast) > YellowFillMinutes * Tenths THEN "yellow"
               ELSE "none")
         ELSE "none"

RouteSheet(rows) == [i \in 1..Len(rows) |-> [cells |-> rows[i], fill |-> RowFill(rows[i])]]

CheckSheet(now, applied, no, rows) ==
    [B1 |-> strftime(now),
     B3 |-> IF applied THEN "YES" ELSE no,
     rows |-> rows]

Workbook(now, routes, summary, exc, a3, c3, a6, c6) ==
    [RouteMonitor |-> RouteSheet(routes),
     Summary |-> summary,
     Exceptions |-> RouteSheet(exc),
     Check3pm |-> CheckSheet(now, a3, "NO (before 3 PM ET)", c3),
     Check6pm |-> CheckSheet(now, a6, "NO (before 6 PM ET)", c6),
     Meta |-> [B1 |-> strftime(now)]]

(***************************************************************************)
(* The uploads the model runs on: every table of at most MaxRows rows over *)
(* Rows, and the scenario tables below.                                    *)
(***************************************************************************)
Row(route, status, time, flee) ==
    [route |-> route, status |-> status, time |-> time, flee |-> flee]

Cells ==
    { <<"Delivered", "13:59:59">>,       \* an hour before the first clock start
      <<"Delivered", "14:54:00">>,       \* six minutes before it
      <<"Delivered", "24:00:00">>,       \* delivered, time not parseable
      <<"PENDING", NaN>> }

Rows ==
    { Row(r, c[1], c[2], f) : r \in {"R1", "R2"}, c \in Cells, f \in {"F1", NaN} }
    \cup { Row(NaN, "Delivered", "13:59:59", "F1") }

RECURSIVE TablesUpTo(_)
TablesUpTo(n) ==
    IF n = 0 THEN { << >> }
    ELSE LET shorter == TablesUpTo(n - 1)
         IN  shorter \cup { Append(t, r) : t \in {u \in shorter : Len(u) = n - 1}, r \in Rows }

Repeat(row, n) == [i \in 1..n |-> row]

\* R1 of the spec: 6 delivered over two hours, the latest at 14:49:59, one
\* failed, three pending
ScenarioR1 ==
    << Row("R1", "DELIVERED", "12:49:59", NaN),
       Row("R1", "DELIVERED", "13:10:00", "F1"),
       Row("R1", "Delivered", "13:30:00", "F1"),
       Row("R1", "delivered", "14:00:00", "F1"),
       Row("R1", "DELIVERED", "14:49:59", "F1"),
       Row("R1", "DELIVERED", "14:30:00", "F1"),
       Row("R1", "FAILED_ADDRESS", "14:40:00", "F1"),
       Row("R1", "PENDING", NaN, "F1"),
       Row("R1", "PENDING", NaN, "F1"),
       Row("R1", "PENDING", NaN, "F1") >>

\* R2 of the spec: five rows, none delivered; the statuses overlap the two tests
ScenarioR2 ==
    << Row("R2", "PENDING", NaN, "F2"),
       Row("R2", "Undelivered_Failed", "14:00:00", "F2"),
       Row("R2", NaN, "14:10:00", "F2"),
       Row("R2", "DELIVERED ", "14:20:00", "F2"),
       Row("R2", "OUT_FOR_DELIVERY", "not yet", "F2") >>

\* R3 of the spec: the last delivery at 13:44:59, two rows remaining, and
\* enough deliveries for ten an hour
ScenarioR3 ==
    Repeat(Row("R3", "DELIVERED", "13:44:59", "UNKNOWN"), 13)
    \o Repeat(Row("R3", "PENDING", NaN, NaN), 2)

\* stalled for over two hours with a row remaining, yet over ten an hour
ScenarioStalled ==
    Repeat(Row("R4", "DELIVERED", "12:58:59", NaN), 25)
    \o << Row("R4", "PENDING", NaN, NaN) >>

\* six deliveries, the first at 14:23:58, and nothing remaining
ScenarioDone ==
    Repeat(Row("R5", "DELIVERED", "14:23:58", "F2"), 6)

Scenarios ==
    { ScenarioR1, ScenarioR2, ScenarioR3, ScenarioStalled, ScenarioDone,
      ScenarioR3 \o ScenarioR1 \o ScenarioStalled \o ScenarioR2 \o ScenarioDone }

Tables == TablesUpTo(MaxRows) \cup Scenarios

ClockStarts == { Val(to_datetime("14:59:59")), Val(to_datetime("17:59:59")) }

Unset == "unset"

(***************************************************************************)
(* The run: the upload handler (lines 302-317) calling build_excel_bytes.  *)
(***************************************************************************)
Init ==
    /\ raw_df \in Tables
    /\ wallclock \in ClockStarts
    /\ ticks = 0
    /\ pc = "uploaded"
    /\ df = << >>
    /\ now_et = Unset
    /\ route_df = << >>
    /\ summary_df = << >>
    /\ exc_df = << >>
    /\ after_3pm = FALSE
    /\ after_6pm = FALSE
    /\ check_3pm = << >>
    /\ check_6pm = << >>
    /\ wb = Unset
    /\ ts = Unset

\* the wall clock advances while the handler runs
Tick ==
    /\ pc \notin {"done", "failed"}
    /\ ticks < MaxTicks
    /\ wallclock' = wallclock + 1
    /\ ticks' = ticks + 1
    /\ UNCHANGED <<raw_df, pc, df, now_et, route_df, summary_df, exc_df,
                   after_3pm, after_6pm, check_3pm, check_6pm, wb, ts>>

\* lines 82-98: the normalised copy, and the one reading of the clock
ReadClock ==
    /\ pc = "uploaded"
    /\ df' = Normalize(raw_df)
    /\ now_et' = wallclock
    /\ pc' = "captured"
    /\ UNCHANGED <<raw_df, wallclock, ticks, route_df, summary_df, exc_df,
                   after_3pm, after_6pm, check_3pm, check_6pm, wb, ts>>

\* lines 100-153
Aggregate ==
    /\ pc = "captured"
    /\ route_df' = Aggregated(df, now_et)
    /\ pc' = "aggregated"
    /\ UNCHANGED <<raw_df, wallclock, ticks, df, now_et, summary_df, exc_df,
                   after_3pm, after_6pm, check_3pm, check_6pm, wb, ts>>

\* lines 155-188, with `hourOf` the instant whose hour the gates test
ComposeAt(hourOf) ==
    /\ pc = "aggregated"
    /\ route_df # << >>
    /\ LET sorted == SortRoutes(route_df)
           a3 == AfterHour(hourOf, Gate3pmHour)
           a6 == AfterHour(hourOf, Gate6pmHour)
       IN  /\ route_df' = sorted
           /\ summary_df' = Summary(sorted)
           /\ exc_df' = SelectSeq(sorted, IsException)
           /\ after_3pm' = a3
           /\ after_6pm' = a6
           /\ check_3pm' = TimeCheck(sorted, a3, Rate3pm)
           /\ check_6pm' = TimeCheck(sorted, a6, Rate6pm)
    /\ pc' = "composed"
    /\ UNCHANGED <<raw_df, wallclock, ticks, df, now_et, wb, ts>>

\* (the gates testing a second reading of the clock)
ComposeRereadsClock == ComposeAt(wallclock)

\* the gates test now_et.hour
Compose == ComposeAt(now_et)

\* line 156 on a table without a route: pd.DataFrame([]) has no column
\* "MinutesSinceLast", the KeyError ends the run
ComposeFails ==
    /\ pc = "aggregated"
    /\ route_df = << >>
    /\ pc' = "failed"
    /\ UNCHANGED <<raw_df, wallclock, ticks, df, now_et, route_df, summary_df,
                   exc_df, after_3pm, after_6pm, check_3pm, check_6pm, wb, ts>>

\* lines 190-279
Render ==
    /\ pc = "composed"
    /\ wb' = Workbook(now_et, route_df, summary_df, exc_df,
                      after_3pm, check_3pm, after_6pm, check_6pm)
    /\ pc' = "built"
    /\ UNCHANGED <<raw_df, wallclock, ticks, df, now_et, route_df, summary_df,
                   exc_df, after_3pm, after_6pm, check_3pm, check_6pm, ts>>

\* line 309: the handler reads the clock again for the file name
FileName ==
    /\ pc = "built"
    /\ ts' = strftime(wallclock)
    /\ pc' = "done"
    /\ UNCHANGED <<raw_df, wallclock, ticks, df, now_et, route_df, summary_df,
                   exc_df, after_3pm, after_6pm, check_3pm, check_6pm, wb>>

Next ==
    \/ Tick
    \/ ReadClock
    \/ Aggregate
    \/ Compose
    \/ ComposeFails
    \/ Render
    \/ FileName

Spec == Init /\ [][Next]_vars

(***************************************************************************)
(* Properties.  They are read off the finished workbook and the uploaded   *)
(* table.                                                                  *)
(***************************************************************************)
Built == pc \in {"built", "done"}

\* the rows of the RouteMonitor sheet, in sheet order
Routes == [i \in 1..Len(wb.RouteMonitor) |-> wb.RouteMonitor[i].cells]
Exceptions == [i \in 1..Len(wb.Exceptions) |-> wb.Exceptions[i].cells]
RangeOf(seq) == {seq[i] : i \in 1..Len(seq)}

\* the rows of the upload that belong to a route
RawGroup(route) == SelectSeq(raw_df, LAMBDA row : row.route = route)
RawDelivered(row) == StrUpper(AsStr(row.status)) = "DELIVERED"
RawTimed(row) == to_datetime(row.time) # None

\* no run of the model meets a deliveries-per-hour quotient half-way between
\* two hundredths (see PerHourRounded)
PerHourNeverHalfWay ==
    pc \notin {"uploaded", "captured"} =>
        \A i \in 1..Len(route_df) :
            ~IsNone(route_df[i].FirstDeliveryTime) =>
                ~PerHourHalfWay(route_df[i].Delivered,
                                now_et - Val(route_df[i].FirstDeliveryTime))

\* C1: in the sorted RouteMonitor table every NO_DELIVERED route comes before
\* every HAS_DELIVERED route, and of two routes with the same StatusFlag the
\* one with the higher MinutesSinceLast (absent counting as very large) comes
\* earlier.
C1_NoDeliveredFirst ==
    Built =>
        \A i, j \in 1..Len(Routes) :
            /\ (Routes[i].StatusFlag = "NO_DELIVERED" /\ Routes[j].StatusFlag = "HAS_DELIVERED")
                   => i < j
            /\ (/\ Routes[i].StatusFlag = Routes[j].StatusFlag
                /\ SortGreater(Routes[i].MinutesSinceLast, Routes[j].MinutesSinceLast))
                   => i < j

\* rules (a), (b), (c) on the values of the route's row in the table
C2_Qualifies(r) ==
    \/ r.StatusFlag = "NO_DELIVERED"
    \/ /\ (IF r.MinutesSinceLast = None THEN 0 ELSE Val(r.MinutesSinceLast)) > 1200
       /\ r.Remaining > 0
    \/ /\ (IF r.DeliveriesPerHour = None THEN 99900 ELSE Val(r.DeliveriesPerHour)) < 1000
       /\ r.Remaining > 0

\* C2: a route is on the Exceptions sheet exactly if it is NO_DELIVERED, or
\* its MinutesSinceLast (0 if absent) is over 120 with rows remaining, or its
\* DeliveriesPerHour (999 if absent) is under 10 with rows remaining (the
\* values being those of the route's row in the table); so every NO_DELIVERED
\* route is on it, and no HAS_DELIVERED route with DeliveriesPerHour >= 10 and
\* MinutesSinceLast <= 120 is.
C2_ExceptionsExact ==
    Built =>
        /\ RangeOf(Exceptions) = {r \in RangeOf(Routes) : C2_Qualifies(r)}
        /\ \A r \in RangeOf(Routes) :
               /\ r.StatusFlag = "NO_DELIVERED" => r \in RangeOf(Exceptions)
               /\ (/\ r.StatusFlag = "HAS_DELIVERED"
                   /\ r.DeliveriesPerHour # None /\ Val(r.DeliveriesPerHour) >= 1000
                   /\ Val(r.MinutesSinceLast) <= 1200) => r \notin RangeOf(Exceptions)

\* a run whose Exceptions sheet holds a NO_DELIVERED route and a route stalled
\* over two hours that still makes ten an hour, and leaves out a RED route
C2_Witness ==
    /\ Built
    /\ \E r \in RangeOf(Exceptions) : r.StatusFlag = "NO_DELIVERED"
    /\ \E r \in RangeOf(Exceptions) :
           /\ r.StatusFlag = "HAS_DELIVERED"
           /\ Val(r.MinutesSinceLast) > 1200
           /\ r.DeliveriesPerHour # None /\ Val(r.DeliveriesPerHour) >= 1000
    /\ \E r \in RangeOf(Routes) : r.AlertBucket = "RED" /\ r \notin RangeOf(Exceptions)

C3_UnderRate(r, n, d) == r.Delivered * d < n * r.Total

C3_GateHolds(sheet, hour, n, d) ==
    IF now_et < hour * 3600
    THEN sheet.rows = << >> /\ sheet.B3 # "YES" /\ SubSeq(sheet.B3, 1, 2) = "NO"
    ELSE /\ sheet.B3 = "YES"
         /\ sheet.rows = SelectSeq(Routes, LAMBDA r : C3_UnderRate(r, n, d))

\* C3: below its hour (15, 18) a time check is empty and its RuleApplied cell
\* is a NO value; from its hour on the check holds exactly the routes whose
\* completion rate is under 0.50 (0.80) and RuleApplied is YES.
C3_TimeGates ==
    Built => /\ C3_GateHolds(wb.Check3pm, 15, 1, 2)
             /\ C3_GateHolds(wb.Check6pm, 18, 4, 5)

\* a run captured in the first second of 15:00: the 3pm check is populated and
\* the 6pm check is not applied
C3_Witness ==
    /\ Built
    /\ strftime(now_et) = "15:00:00"
    /\ wb.Check3pm.rows # << >> /\ wb.Check3pm.B3 = "YES"
    /\ wb.Check6pm.rows = << >> /\ wb.Check6pm.B3 = "NO (before 6 PM ET)"
    /\ \E r \in RangeOf(Routes) : r.Delivered * 5 < 4 * r.Total

\* C4: with the MinutesSinceLast the table reports for the route, AlertBucket
\* is RED iff it is over 60, YELLOW iff over 30 and at most 60, OK iff at most
\* 30, and NO_DELIVERED iff StatusFlag is NO_DELIVERED.
C4_BucketOfReportedMinutes ==
    Built =>
        \A r \in RangeOf(Routes) :
            LET present == r.MinutesSinceLast # None
                m == Val(r.MinutesSinceLast)
            IN  /\ r.AlertBucket \in {"NO_DELIVERED", "OK", "YELLOW", "RED"}
                /\ r.AlertBucket = "RED" <=> (present /\ m > 600)
                /\ r.AlertBucket = "YELLOW" <=> (present /\ m > 300 /\ m <= 600)
                /\ r.AlertBucket = "OK" <=> (present /\ m <= 300)
                /\ r.AlertBucket = "NO_DELIVERED" <=> r.StatusFlag = "NO_DELIVERED"

\* C5: a route is NO_DELIVERED exactly if no row of its group is both
\* DELIVERED (upper-cased) and timestamped; then its time-derived fields are
\* absent and its AlertBucket is NO_DELIVERED.
C5_NoDeliveredExact ==
    Built =>
        \A r \in RangeOf(Routes) :
            LET g == RawGroup(r.Route)
                none == \A i \in 1..Len(g) : ~(RawDelivered(g[i]) /\ RawTimed(g[i]))
            IN  /\ r.StatusFlag = "NO_DELIVERED" <=> none
                /\ r.StatusFlag \in {"NO_DELIVERED", "HAS_DELIVERED"}
                /\ r.StatusFlag = "NO_DELIVERED" =>
                       /\ r.FirstDeliveryTime = None
                       /\ r.LatestDeliveredTime = None
                       /\ r.MinutesSinceLast = None
                       /\ r.HoursSinceFirstDelivery = None
                       /\ r.DeliveriesPerHour = None
                       /\ r.AlertBucket = "NO_DELIVERED"

\* a NO_DELIVERED route with a positive delivered count, beside a
\* HAS_DELIVERED route
C5_Witness ==
    /\ Built
    /\ \E r \in RangeOf(Routes) : r.StatusFlag = "NO_DELIVERED" /\ r.Delivered > 0
    /\ \E r \in RangeOf(Routes) : r.StatusFlag = "HAS_DELIVERED"

\* the upload gives the route ten rows: six DELIVERED with timestamps spanning
\* two hours, the latest ten minutes before the captured now, one
\* FAILED_ADDRESS and three PENDING
C6_IsScenarioR1(route) ==
    LET g == RawGroup(route)
        del == SelectSeq(g, LAMBDA row : RawDelivered(row) /\ RawTimed(row))
        times == {Val(to_datetime(del[i].time)) : i \in 1..Len(del)}
    IN  /\ Len(g) = 10
        /\ Len(del) = 6
        /\ Len(SelectSeq(g, RawDelivered)) = 6
        /\ Len(SelectSeq(g, LAMBDA row : row.status = "FAILED_ADDRESS")) = 1
        /\ Len(SelectSeq(g, LAMBDA row : row.status = "PENDING")) = 3
        /\ SetMax(times) = now_et - 600
        /\ SetMax(times) - SetMin(times) = 7200

C6_CountsOfR1(r) ==
    /\ r.Total = 10 /\ r.Delivered = 6 /\ r.Failed = 1 /\ r.Remaining = 3
    /\ r.CompletionRate.n * 10 = 6 * r.CompletionRate.d
    /\ r.StatusFlag = "HAS_DELIVERED"
    /\ r.AlertBucket = "OK"

\* C6 as claimed: scenario R1 gives total=10, delivered=6, failed=1,
\* remaining=3, completionRate=0.6, HAS_DELIVERED, OK and deliveriesPerHour=3.0.
C6_R1PerHourIsThree ==
    Built =>
        \A r \in RangeOf(Routes) :
            C6_IsScenarioR1(r.Route) =>
                C6_CountsOfR1(r) /\ r.DeliveriesPerHour = Some(300)

\* C6 as amended: the same scenario gives the same counts, rate, flag and
\* bucket, and deliveriesPerHour=2.77: six deliveries over the 2 h 10 min
\* (reported as 2.17 h) from the first delivery to now.
C6_R1PerHourSinceFirst ==
    Built =>
        \A r \in RangeOf(Routes) :
            C6_IsScenarioR1(r.Route) =>
                /\ C6_CountsOfR1(r)
                /\ r.DeliveriesPerHour = Some(277)
                /\ r.HoursSinceFirstDelivery = Some(217)
                /\ r.MinutesSinceLast = Some(100)

C6_Witness ==
    /\ Built
    /\ \E r \in RangeOf(Routes) : C6_IsScenarioR1(r.Route) /\ r.Route = "R1"

\* C7: every time-relative result of one run derives from the one instant
\* captured at its start, whatever the wall clock does meanwhile: each
\* route's MinutesSinceLast and HoursSinceFirstDelivery, the hour the two
\* gates test, and the run timestamps of the 3pm, 6pm and Meta sheets.
C7_OneInstant ==
    /\ pc \in {"composed", "built", "done"} =>
           /\ after_3pm = (now_et >= 15 * 3600)
           /\ after_6pm = (now_et >= 18 * 3600)
           /\ \A i \in 1..Len(route_df) :
                  LET r == route_df[i]
                  IN  r.StatusFlag = "HAS_DELIVERED" =>
                          /\ r.MinutesSinceLast =
                                 Some(RoundDiv(now_et - Val(r.LatestDeliveredTime), 60, 10))
                          /\ r.HoursSinceFirstDelivery =
                                 Some(RoundDiv(now_et - Val(r.FirstDeliveryTime), 3600, 100))
    /\ Built =>
           /\ to_datetime(wb.Check3pm.B1) = Some(now_et)
           /\ to_datetime(wb.Check6pm.B1) = Some(now_et)
           /\ to_datetime(wb.Meta.B1) = Some(now_et)
           /\ (wb.Check3pm.B3 = "YES") = (now_et >= 15 * 3600)
           /\ (wb.Check6pm.B3 = "YES") = (now_et >= 18 * 3600)
           /\ (wb.Check3pm.rows # << >>) => now_et >= 15 * 3600
           /\ (wb.Check6pm.rows # << >>) => now_et >= 18 * 3600

\* a finished run captured at 14:59:59 during which the clock passed 15:00:
\* the file name carries the later reading, the workbook does not
C7_Witness ==
    /\ pc = "done"
    /\ Hour(now_et) = 14 /\ Hour(wallclock) = 15
    /\ ts # wb.Meta.B1
    /\ wb.Check3pm.B3 # "YES"
    /\ \E r \in RangeOf(Routes) : r.StatusFlag = "HAS_DELIVERED"

RECURSIVE C8_Sum(_, _)
C8_Sum(S, field) ==
    IF S = {} THEN 0
    ELSE LET r == CHOOSE x \in S : TRUE IN r[field] + C8_Sum(S \ {r}, field)

C8_Carrier(r) == IF r.FleeName = NaN THEN "UNKNOWN" ELSE r.FleeName

\* C8: each carrier row of the Summary sums the Total, Delivered, Failed and
\* Remaining of the routes whose FleeName (UNKNOWN if missing) is the
\* carrier's, its completion rate is summed delivered over summed total (0.0
\* if that total is 0), and every route belongs to exactly one carrier row.
C8_CarrierSums ==
    Built =>
        /\ \A i \in 1..Len(wb.Summary) :
               LET c == wb.Summary[i]
                   m == {r \in RangeOf(Routes) : C8_Carrier(r) = c.FleeName}
               IN  /\ m # {}
                   /\ c.Routes = Cardinality(m)
                   /\ c.TotalPkgs = C8_Sum(m, "Total")
                   /\ c.Delivered = C8_Sum(m, "Delivered")
                   /\ c.Failed = C8_Sum(m, "Failed")
                   /\ c.Remaining = C8_Sum(m, "Remaining")
                   /\ IF C8_Sum(m, "Total") = 0
                      THEN c.CompletionRate.n = 0
                      ELSE c.CompletionRate.n * C8_Sum(m, "Total")
                               = C8_Sum(m, "Delivered") * c.CompletionRate.d
                   /\ c.CompletionRate.d > 0
        /\ \A r \in RangeOf(Routes) :
               Cardinality({i \in 1..Len(wb.Summary) :
                                wb.Summary[i].FleeName = C8_Carrier(r)}) = 1

\* a Summary with several carriers, UNKNOWN among them with a route that
\* names no carrier, and a carrier of two routes
C8_Witness ==
    /\ Built
    /\ Len(wb.Summary) >= 2
    /\ \E r \in RangeOf(Routes) : r.FleeName = NaN
    /\ \E i \in 1..Len(wb.Summary) :
           wb.Summary[i].FleeName = "UNKNOWN" /\ wb.Summary[i].TotalPkgs > 0
    /\ \E i \in 1..Len(wb.Summary) :
           wb.Summary[i].Routes >= 2 /\ wb.Summary[i].Delivered > 0

C9_FillOf(row) ==
    /\ row.fill = "purple" <=> row.cells.AlertBucket = "NO_DELIVERED"
    /\ row.fill = "red" <=> row.cells.AlertBucket = "RED"
    /\ row.fill = "yellow" <=> row.cells.AlertBucket = "YELLOW"
    /\ row.fill = "none" <=> row.cells.AlertBucket = "OK"

\* C9: on the RouteMonitor and Exceptions sheets a row's fill agrees with the
\* AlertBucket written in it: purple iff NO_DELIVERED, red iff RED, yellow
\* iff YELLOW, unfilled iff OK.
C9_FillAgreesWithBucket ==
    Built =>
        /\ \A i \in 1..Len(wb.RouteMonitor) : C9_FillOf(wb.RouteMonitor[i])
        /\ \A i \in 1..Len(wb.Exceptions) : C9_FillOf(wb.Exceptions[i])

\* C10: no row counts both as delivered and as failed, so for every route
\* delivered + failed <= total and remaining >= 0, and every carrier's summed
\* Remaining is >= 0.
C10_NoDoubleCount ==
    /\ \A i \in 1..Len(df) : ~(IsDelivered(df[i]) /\ IsFailed(df[i]))
    /\ \A i \in 1..Len(route_df) :
           /\ route_df[i].Delivered + route_df[i].Failed <= route_df[i].Total
           /\ route_df[i].Remaining >= 0
           /\ route_df[i].Remaining =
                  route_df[i].Total - route_df[i].Delivered - route_df[i].Failed
    /\ \A i \in 1..Len(summary_df) : summary_df[i].Remaining >= 0

\* a finished run over statuses that hold both words, "DELIVERED" and "FAIL"
C10_Witness ==
    /\ Built
    /\ \E i \in 1..Len(df) :
           /\ StrContains(df[i].StatusU, "DELIVERED")
           /\ StrContains(df[i].StatusU, "FAIL")
           /\ \E r \in RangeOf(Routes) : r.Route = df[i].route /\ r.Failed > 0
    /\ \E i \in 1..Len(df) : df[i].StatusU = "DELIVERED"

====
